---------------------------- MODULE Spec2Model ----------------------------
(***************************************************************************)
(* State-machine model of the multi-agent real-estate chatbot:             *)
(*   agent_router.py          AgentRouter.route_request and the functions  *)
(*                            that follow it in the file                   *)
(*   issue_detection_agent.py IssueDetectionAgent.process_request and      *)
(*                            get_follow_up_questions                      *)
(*   tenancy_faq_agent.py     TenancyFAQAgent.process_request              *)
(*   streamlit_main_app.py    the session state and the script runs that   *)
(*                            change it                                    *)
(*                                                                         *)
(* Python strings are sequences of one-character strings, so that lower(), *)
(* strip() and the `in` substring test are computed, not assumed.          *)
(* Confidences are percentages (0.7 is 70).                                *)
(*                                                                         *)
(* Reading of the sources.  agent_router.py parses: the class AgentRouter  *)
(* ends at line 47, line 49 opens a module-level function and the `def`s   *)
(* of lines 63-141 are nested in it after its `return`.  The model follows *)
(* that structure.  issue_detection_agent.py and tenancy_faq_agent.py do   *)
(* not compile as committed (string literals broken across lines); their   *)
(* functions are modelled statement by statement as they are written, the  *)
(* prompt text itself being opaque.                                        *)
(***************************************************************************)
EXTENDS Integers, Sequences, FiniteSets, TLC

VARIABLES
    messages,               \* st.session_state.messages
    current_agent,          \* st.session_state.current_agent
    conversation_context,   \* st.session_state.conversation_context
    user_location,          \* st.session_state.user_location
    last_run,               \* what the latest script run did
    call                    \* a direct call of one function: inputs and result

vars == <<messages, current_agent, conversation_context, user_location,
          last_run, call>>

-----------------------------------------------------------------------------
(* Bounds *)

MaxWords == 2        \* words per generated input text
MaxContext == 1      \* entries of a context dict
MaxMessages == 5     \* length of the conversation log
MaxLog == 3          \* length of a log given to analyze_conversation_flow

-----------------------------------------------------------------------------
(* Python values *)

PyNone == [py |-> "None", items |-> <<>>]

PyDict(items) == [py |-> "dict", items |-> items]

\* truth value of a dict or None, as tested by `if context:`
Truthy(v) == v.py = "dict" /\ Len(v.items) > 0

Ret(v, calls) == [kind |-> "return", value |-> v, exc |-> "", calls |-> calls]

Raise(e, calls) == [kind |-> "raise", value |-> "", exc |-> e, calls |-> calls]

\* str.lower() on one character
LowerChar(c) ==
    LET up == <<"A","B","C","D","E","F","G","H","I","J","K","L","M",
                "N","O","P","Q","R","S","T","U","V","W","X","Y","Z">>
        lo == <<"a","b","c","d","e","f","g","h","i","j","k","l","m",
                "n","o","p","q","r","s","t","u","v","w","x","y","z">>
    IN  IF \E i \in 1..26 : up[i] = c
        THEN lo[CHOOSE i \in 1..26 : up[i] = c]
        ELSE c

\* str.lower()
Lower(s) == [i \in 1..Len(s) |-> LowerChar(s[i])]

IsSpace(c) == c \in {" ", "\n", "\t"}

\* str.strip()
RECURSIVE Strip(_)
Strip(s) ==
    IF s = <<>> THEN s
    ELSE IF IsSpace(s[1]) THEN Strip(Tail(s))
    ELSE IF IsSpace(s[Len(s)]) THEN Strip(SubSeq(s, 1, Len(s) - 1))
    ELSE s

\* `k in s` for two strings
In(k, s) ==
    \E i \in 0..(Len(s) - Len(k)) : SubSeq(s, i + 1, i + Len(k)) = k

\* json.dumps(context): a dict holding a value that is not JSON-serialisable
\* (bytes) raises TypeError
json_dumps(context) ==
    IF \E i \in 1..Len(context.items) : context.items[i] = "bytes"
    THEN Raise("TypeError", <<>>)
    ELSE Ret([json |-> context.items], <<>>)

-----------------------------------------------------------------------------
(* utils.get_gemini_response / get_gemini_response_with_image: the external *)
(* model call.  `outcome` is what the service does when it is invoked.      *)

ModelOk(text) == [ok |-> TRUE, text |-> text]

ModelFails == [ok |-> FALSE, text |-> <<>>]

get_gemini_response(prompt, outcome) ==
    LET c == <<[api |-> "text", prompt |-> prompt]>>
    IN  IF outcome.ok THEN Ret(outcome.text, c) ELSE Raise("Exception", c)

get_gemini_response_with_image(prompt, image_data, outcome) ==
    LET c == <<[api |-> "image", prompt |-> prompt]>>
    IN  IF outcome.ok THEN Ret(outcome.text, c) ELSE Raise("Exception", c)

-----------------------------------------------------------------------------
(* agent_router.py *)

\* the attributes of class AgentRouter: its body is lines 8-47
AgentRouterMethods == {"route_request"}

tenancy_keywords ==
    << <<"l","a","n","d","l","o","r","d">>, <<"t","e","n","a","n","t">>,
       <<"r","e","n","t">>, <<"d","e","p","o","s","i","t">>,
       <<"e","v","i","c","t">>, <<"l","e","a","s","e">>,
       <<"r","i","g","h","t","s">>, <<"l","a","w">>,
       <<"l","e","g","a","l">> >>

issue_keywords ==
    << <<"d","a","m","a","g","e">>, <<"b","r","o","k","e","n">>,
       <<"c","r","a","c","k">>, <<"l","e","a","k">>, <<"m","o","l","d">>,
       <<"r","e","p","a","i","r">>, <<"f","i","x">>,
       <<"i","s","s","u","e">> >>

\* sum(1 for keyword in keywords if keyword in text_lower)
RECURSIVE KeywordSum(_, _)
KeywordSum(keywords, text_lower) ==
    IF keywords = <<>> THEN 0
    ELSE (IF In(Head(keywords), text_lower) THEN 1 ELSE 0)
         + KeywordSum(Tail(keywords), text_lower)

\* the scores with line 68's lower() left out
KeywordScores_case_sensitive(text) ==
    [tenancy_score |-> KeywordSum(tenancy_keywords, text),
     issue_score   |-> KeywordSum(issue_keywords, text)]

\* the two scores of _fallback_route (lines 68-74)
KeywordScores(text) ==
    LET text_lower == Lower(text)
    IN  [tenancy_score |-> KeywordSum(tenancy_keywords, text_lower),
         issue_score   |-> KeywordSum(issue_keywords, text_lower)]

_fallback_route(text, has_image, context) ==
    LET s == KeywordScores(text)
    IN  IF has_image \/ s.issue_score > s.tenancy_score THEN Ret("agent1", <<>>)
        ELSE IF s.tenancy_score > s.issue_score THEN Ret("agent2", <<>>)
        ELSE Ret("router", <<>>)

_build_gemini_routing_prompt(text, context) ==
    IF Truthy(context)
    THEN LET j == json_dumps(context)
         IN  IF j.kind = "raise" THEN j
             ELSE Ret([template |-> "routing", text |-> text,
                       with_context |-> TRUE], <<>>)
    ELSE Ret([template |-> "routing", text |-> text,
              with_context |-> FALSE], <<>>)

\* lines 35-42: the decision read from the model's answer
RoutingDecision(gemini_response) ==
    LET routing_decision == Lower(Strip(gemini_response))
    IN  IF In(<<"i","s","s","u","e">>, routing_decision) THEN "agent1"
        ELSE IF In(<<"t","e","n","a","n","c","y">>, routing_decision) THEN "agent2"
        ELSE "router"

\* route_request with the has_image test of lines 26-28 left out
route_request_no_image_shortcut(text, has_image, context, outcome) ==
    IF "_build_gemini_routing_prompt" \notin AgentRouterMethods
    THEN Raise("AttributeError", <<>>)
    ELSE LET p == _build_gemini_routing_prompt(text, context)
         IN  IF p.kind = "raise" THEN p
             ELSE LET g == get_gemini_response(p.value, outcome)
                  IN  IF g.kind = "return"
                      THEN Ret(RoutingDecision(g.value), g.calls)
                      ELSE IF "_fallback_route" \notin AgentRouterMethods
                      THEN Raise("AttributeError", g.calls)
                      ELSE LET f == _fallback_route(text, has_image, context)
                           IN  [f EXCEPT !.calls = g.calls]

\* self.<name>(...) on an AgentRouter: the attribute lookup comes first
route_request(text, has_image, context, outcome) ==
    IF has_image THEN Ret("agent1", <<>>)
    ELSE IF "_build_gemini_routing_prompt" \notin AgentRouterMethods
    THEN Raise("AttributeError", <<>>)
    ELSE LET p == _build_gemini_routing_prompt(text, context)
         IN  IF p.kind = "raise" THEN p
             ELSE LET g == get_gemini_response(p.value, outcome)
                  IN  IF g.kind = "return"
                      THEN Ret(RoutingDecision(g.value), g.calls)
                      ELSE IF "_fallback_route" \notin AgentRouterMethods
                      THEN Raise("AttributeError", g.calls)
                      ELSE LET f == _fallback_route(text, has_image, context)
                           IN  [f EXCEPT !.calls = g.calls]

-----------------------------------------------------------------------------
(* issue_detection_agent.py *)

APOLOGY ==
    <<"S","o","r","r","y",","," ","I"," ","c","o","u","l","d","n","'","t"," ",
      "p","r","o","c","e","s","s"," ","y","o","u","r"," ","r","e","q","u","e",
      "s","t"," ","a","t"," ","t","h","e"," ","m","o","m","e","n","t","."," ",
      "P","l","e","a","s","e"," ","t","r","y"," ","a","g","a","i","n"," ","l",
      "a","t","e","r",".">>

\* truth value of Optional[bytes], as tested by `if image_data:`
BytesTruthy(b) == b.py = "bytes" /\ Len(b.items) > 0

\* _build_gemini_prompt_from_text and _build_gemini_prompt_with_image differ
\* only in the template text
IssueBuildPrompt(template, text, context) ==
    IF Truthy(context)
    THEN LET j == json_dumps(context)
         IN  IF j.kind = "raise" THEN j
             ELSE Ret([template |-> template, text |-> text,
                       with_context |-> TRUE], <<>>)
    ELSE Ret([template |-> template, text |-> text,
              with_context |-> FALSE], <<>>)

Issue_parse_gemini_response(response) == <<response, 70>>

\* the body of the try block, lines 29-37
IssueTryBody(text, image_data, context, outcome) ==
    LET withImage == BytesTruthy(image_data)
        p == IF withImage THEN IssueBuildPrompt("issue_image", text, context)
             ELSE IssueBuildPrompt("issue_text", text, context)
    IN  IF p.kind = "raise" THEN p
        ELSE LET g == IF withImage
                      THEN get_gemini_response_with_image(p.value, image_data, outcome)
                      ELSE get_gemini_response(p.value, outcome)
             IN  IF g.kind = "raise" THEN g
                 ELSE Ret(Issue_parse_gemini_response(g.value), g.calls)

\* process_request with the except clause catching nothing
Issue_process_request_uncaught(text, image_data, context, outcome) ==
    IssueTryBody(text, image_data, context, outcome)

\* IssueDetectionAgent.process_request: `except Exception` turns every raise
\* of the body into the apology
Issue_process_request(text, image_data, context, outcome) ==
    LET b == IssueTryBody(text, image_data, context, outcome)
    IN  IF b.kind = "raise" THEN Ret(<<APOLOGY, 0>>, b.calls) ELSE b

-----------------------------------------------------------------------------
(* Inputs *)

Words ==
    { <<"l","e","a","k">>, <<"L","E","A","K">>, <<"r","e","n","t">>,
      <<"p","a","r","e","n","t">>, <<"f","l","a","w">>, <<"h","i">> }

\* the texts of at most n words, separated by one space
RECURSIVE WordTexts(_)
WordTexts(n) ==
    IF n = 0 THEN { <<>> }
    ELSE LET shorter == WordTexts(n - 1)
         IN  shorter \cup
             { IF t = <<>> THEN w ELSE t \o <<" ">> \o w :
                 t \in shorter, w \in Words }

FixedTexts ==
    { <<" "," ">>,
      <<"B","r","o","k","e","n"," ","p","i","p","e"," ","a","n","d"," ","a",
        " ","L","E","A","K">>,
      <<"d","a","m","a","g","e"," ","b","r","o","k","e","n"," ","c","r","a",
        "c","k"," ","l","e","a","k"," ","m","o","l","d"," ","r","e","p","a",
        "i","r"," ","f","i","x"," ","i","s","s","u","e">>,
      <<"l","a","n","d","l","o","r","d"," ","t","e","n","a","n","t"," ","r",
        "e","n","t"," ","d","e","p","o","s","i","t"," ","e","v","i","c","t",
        " ","l","e","a","s","e"," ","r","i","g","h","t","s"," ","l","a","w",
        " ","l","e","g","a","l">> }

Texts == WordTexts(MaxWords) \cup FixedTexts

ModelResponses ==
    { <<"i","s","s","u","e">>,
      <<" ","T","e","n","a","n","c","y","\n">>,
      <<"g","e","n","e","r","a","l">>,
      <<"T","h","i","s"," ","s","e","e","m","s"," ","l","i","k","e"," ","a",
        " ","t","e","n","a","n","c","y"," ","i","s","s","u","e"," ","m","a",
        "t","t","e","r">>,
      <<>> }

Outcomes == { ModelOk(r) : r \in ModelResponses } \cup { ModelFails }

RECURSIVE SeqsUpTo(_, _)
SeqsUpTo(S, n) ==
    IF n = 0 THEN { <<>> }
    ELSE LET shorter == SeqsUpTo(S, n - 1)
         IN  shorter \cup { Append(q, x) : q \in shorter, x \in S }

Contexts == { PyNone } \cup { PyDict(q) : q \in SeqsUpTo({"str", "bytes"}, MaxContext) }

PyBytes(n) == [py |-> "bytes", items |-> [i \in 1..n |-> 0]]

ImagePayloads == { PyNone, PyBytes(0), PyBytes(1) }

-----------------------------------------------------------------------------
(* Direct calls: one function applied to one choice of inputs *)

NoCall == [fn |-> "idle", result |-> Ret("", <<>>)]

CallInputs ==
    [text : Texts, image_data : ImagePayloads, context : Contexts,
     outcome : Outcomes]

has_image_of(c) == c.image_data.py # "None"

Called(fn, result) ==
    call' = [call EXCEPT !.fn = fn, !.result = result]

CallRouteRequest ==
    /\ call.fn = "none"
    /\ Called("route_request",
              route_request(call.text, has_image_of(call), call.context,
                            call.outcome))
    /\ UNCHANGED <<messages, current_agent, conversation_context,
                   user_location, last_run>>

CallFallbackRoute ==
    /\ call.fn = "none"
    /\ Called("_fallback_route",
              _fallback_route(call.text, has_image_of(call), call.context))
    /\ UNCHANGED <<messages, current_agent, conversation_context,
                   user_location, last_run>>

CallKeywordScores ==
    /\ call.fn = "none"
    /\ Called("KeywordScores", Ret(KeywordScores(call.text), <<>>))
    /\ UNCHANGED <<messages, current_agent, conversation_context,
                   user_location, last_run>>

CallIssueProcessRequest ==
    /\ call.fn = "none"
    /\ Called("Issue_process_request",
              Issue_process_request(call.text, call.image_data, call.context,
                                    call.outcome))
    /\ UNCHANGED <<messages, current_agent, conversation_context,
                   user_location, last_run>>

-----------------------------------------------------------------------------
(* tenancy_faq_agent.py *)

\* the names bound at module level: the imports of lines 3-6
TenancyModuleNames == {"random", "Dict", "List", "Tuple", "Optional", "re",
                       "get_gemini_response"}

Tenancy_build_gemini_prompt(text, location, context) ==
    IF Truthy(context)
    THEN IF "json" \notin TenancyModuleNames
         THEN Raise("NameError", <<>>)
         ELSE LET j == json_dumps(context)
              IN  IF j.kind = "raise" THEN j
                  ELSE Ret([template |-> "tenancy", text |-> text,
                            with_context |-> TRUE], <<>>)
    ELSE Ret([template |-> "tenancy", text |-> text,
              with_context |-> FALSE], <<>>)

Tenancy_parse_gemini_response(response) == <<response, 80>>

\* TenancyFAQAgent.process_request: the prompt is built before the try
Tenancy_process_request(text, location, context, outcome) ==
    LET p == Tenancy_build_gemini_prompt(text, location, context)
    IN  IF p.kind = "raise" THEN p
        ELSE LET g == get_gemini_response(p.value, outcome)
             IN  IF g.kind = "raise" THEN Ret(<<APOLOGY, 0>>, g.calls)
                 ELSE Ret(Tenancy_parse_gemini_response(g.value), g.calls)

-----------------------------------------------------------------------------
(* agent_router.py, generate_clarification_response (lines 83-93) *)

\* the names bound at module level of agent_router.py: the imports of
\* lines 3-6
RouterModuleNames == {"re", "Dict", "List", "Tuple", "Optional", "json",
                      "get_gemini_response"}

responses ==
    << <<"I","'","m"," ","n","o","t"," ","s","u","r","e"," ","i","f"," ","y",
      "o","u"," ","n","e","e","d"," ","h","e","l","p"," ","w","i","t","h",
      " ","a"," ","p","r","o","p","e","r","t","y"," ","i","s","s","u","e",
      " ","o","r"," ","a"," ","t","e","n","a","n","c","y"," ","q","u","e",
      "s","t","i","o","n","."," ","C","a","n"," ","y","o","u"," ","p","l",
      "e","a","s","e"," ","c","l","a","r","i","f","y","?">>,
       <<"T","o"," ","a","s","s","i","s","t"," ","y","o","u"," ","b","e","t",
      "t","e","r",","," ","c","o","u","l","d"," ","y","o","u"," ","s","p",
      "e","c","i","f","y"," ","i","f"," ","y","o","u","r"," ","q","u","e",
      "r","y"," ","i","s"," ","a","b","o","u","t"," ","a"," ","p","r","o",
      "b","l","e","m"," ","w","i","t","h"," ","a"," ","p","r","o","p","e",
      "r","t","y"," ","o","r"," ","a","b","o","u","t"," ","r","e","n","t",
      "a","l","/","t","e","n","a","n","c","y"," ","m","a","t","t","e","r",
      "s","?">>,
       <<"A","r","e"," ","y","o","u"," ","a","s","k","i","n","g"," ","a","b",
      "o","u","t"," ","a"," ","p","r","o","p","e","r","t","y"," ","i","s",
      "s","u","e"," ","o","r"," ","a"," ","q","u","e","s","t","i","o","n",
      " ","a","b","o","u","t"," ","t","e","n","a","n","c","y"," ","l","a",
      "w","s","?"," ","P","l","e","a","s","e"," ","t","e","l","l"," ","m",
      "e"," ","m","o","r","e",".">> >>

\* `pick` is the index random.choice draws
generate_clarification_response(text, context, pick) ==
    IF "random" \notin RouterModuleNames THEN Raise("NameError", <<>>)
    ELSE Ret(<<responses[pick], 100>>, <<>>)

-----------------------------------------------------------------------------
(* streamlit_main_app.py *)

PyStr(s) == [py |-> "str", items |-> s]

\* st.file_uploader: None or an UploadedFile holding the bytes
Uploads == { PyNone } \cup { [py |-> "UploadedFile", items |-> b.items] :
                              b \in { PyBytes(0), PyBytes(1) } }

\* a Message built without passing agent
Message_without_agent(id, type, content, agent, image_data, confidence) ==
    [id |-> id, type |-> type, content |-> content, agent |-> "None",
     image_data |-> image_data, confidence |-> confidence]

\* the Message dataclass (lines 26-35); id without its time suffix, no
\* timestamp; Optional[float] confidence is <<>> for None
Message(id, type, content, agent, image_data, confidence) ==
    [id |-> id, type |-> type, content |-> content, agent |-> agent,
     image_data |-> image_data, confidence |-> confidence]

\* the welcome message of setup_session_state (its first line of text)
Welcome ==
    Message("welcome", "bot",
            <<"W","e","l","c","o","m","e"," ","t","o"," ","y","o","u","r"," ","M",
      "u","l","t","i","-","A","g","e","n","t"," ","R","e","a","l"," ","E",
      "s","t","a","t","e"," ","A","s","s","i","s","t","a","n","t","!">>,
            "router", PyNone, <<>>)

NoResult == Ret("", <<>>)

\* insert(0, m) in place of append(m)
AppendMessage_at_front(msgs, m) == <<m>> \o msgs

\* st.session_state.messages.append(m), lines 179 and 258
AppendMessage(msgs, m) == Append(msgs, m)

\* process_user_input without the assignment of line 190
process_user_input_agent_unset(msgs, agent, ctx, location, user_input, uploaded_image, routeOutcome, genOutcome, pick) ==
    LET image_data == IF uploaded_image.py # "None"
                      THEN [py |-> "bytes", items |-> uploaded_image.items]
                      ELSE PyNone
        user_message == Message("user", "user", user_input, "None",
                                image_data, <<>>)
        msgs1 == AppendMessage(msgs, user_message)
        r == route_request(user_input, uploaded_image.py # "None", ctx,
                           routeOutcome)
    IN  IF r.kind = "raise"
        THEN [messages |-> msgs1, current_agent |-> agent, status |-> "exception",
              route |-> r, generator |-> "none", gen |-> NoResult,
              context |-> ctx]
        ELSE LET target_agent == r.value
                 generator == IF target_agent = "agent1" THEN "issue_agent"
                              ELSE IF target_agent = "agent2" THEN "tenancy_agent"
                              ELSE "clarification"
                 g == IF target_agent = "agent1"
                      THEN Issue_process_request(user_input, image_data, ctx,
                                                 genOutcome)
                      ELSE IF target_agent = "agent2"
                      THEN Tenancy_process_request(user_input, location, ctx,
                                                   genOutcome)
                      ELSE IF "generate_clarification_response"
                                  \notin AgentRouterMethods
                      THEN Raise("AttributeError", <<>>)
                      ELSE generate_clarification_response(user_input, ctx, pick)
             IN  IF g.kind = "raise"
                 THEN [messages |-> msgs1, current_agent |-> agent,
                       status |-> "exception", route |-> r,
                       generator |-> generator, gen |-> g, context |-> ctx]
                 ELSE LET bot_message ==
                              Message("bot", "bot", g.value[1], target_agent,
                                      PyNone, <<g.value[2]>>)
                      IN  [messages |-> AppendMessage(msgs1, bot_message),
                           current_agent |-> agent,
                           status |-> "rerun", route |-> r,
                           generator |-> generator, gen |-> g,
                           context |-> ctx]

\* process_user_input (lines 158-219) followed by the append of line 258.
\* Gives the session fields it leaves behind and how it ended.
process_user_input(msgs, agent, ctx, location, user_input, uploaded_image, routeOutcome, genOutcome, pick) ==
    LET image_data == IF uploaded_image.py # "None"
                      THEN [py |-> "bytes", items |-> uploaded_image.items]
                      ELSE PyNone
        user_message == Message("user", "user", user_input, "None",
                                image_data, <<>>)
        msgs1 == AppendMessage(msgs, user_message)
        r == route_request(user_input, uploaded_image.py # "None", ctx,
                           routeOutcome)
    IN  IF r.kind = "raise"
        THEN [messages |-> msgs1, current_agent |-> agent, status |-> "exception",
              route |-> r, generator |-> "none", gen |-> NoResult,
              context |-> ctx]
        ELSE LET target_agent == r.value
                 generator == IF target_agent = "agent1" THEN "issue_agent"
                              ELSE IF target_agent = "agent2" THEN "tenancy_agent"
                              ELSE "clarification"
                 g == IF target_agent = "agent1"
                      THEN Issue_process_request(user_input, image_data, ctx,
                                                 genOutcome)
                      ELSE IF target_agent = "agent2"
                      THEN Tenancy_process_request(user_input, location, ctx,
                                                   genOutcome)
                      ELSE IF "generate_clarification_response"
                                  \notin AgentRouterMethods
                      THEN Raise("AttributeError", <<>>)
                      ELSE generate_clarification_response(user_input, ctx, pick)
             IN  IF g.kind = "raise"
                 THEN [messages |-> msgs1, current_agent |-> target_agent,
                       status |-> "exception", route |-> r,
                       generator |-> generator, gen |-> g, context |-> ctx]
                 ELSE LET bot_message ==
                              Message("bot", "bot", g.value[1], target_agent,
                                      PyNone, <<g.value[2]>>)
                      IN  [messages |-> AppendMessage(msgs1, bot_message),
                           current_agent |-> target_agent,
                           status |-> "rerun", route |-> r,
                           generator |-> generator, gen |-> g,
                           context |-> ctx]

\* clear_conversation keeping messages[-1] in place of messages[0]
clear_conversation_keeps_last(msgs) ==
    [messages |-> <<msgs[Len(msgs)]>>, current_agent |-> "router",
     conversation_context |-> PyDict(<<>>)]

\* clear_conversation (lines 117-122)
clear_conversation(msgs) ==
    [messages |-> <<msgs[1]>>, current_agent |-> "router",
     conversation_context |-> PyDict(<<>>)]

Locations == { PyStr(<<>>), PyStr(<<"T","X">>) }

SessionTexts ==
    { <<>>, <<" "," ">>, <<"l","e","a","k">>, <<"r","e","n","t">> }

SessionOutcomes ==
    { ModelOk(<<"i","s","s","u","e">>), ModelOk(<<"g","e","n","e","r","a","l">>),
      ModelFails }

\* What a script run leaves to observe: how it ended, what the router and
\* the generator did, the context argument of lines 186, 196, 202 and 207,
\* and the log length and current_agent the run started from.
Run(event, status, submitted, route, generator, gen, context) ==
    [event |-> event, status |-> status, submitted |-> submitted,
     route |-> route, generator |-> generator, gen |-> gen,
     context |-> context,
     prior_len |-> Len(messages), prior_agent |-> current_agent]

\* A script run whose event is a click on "Send Message": render_sidebar
\* syncs the location (lines 103-104), render_chat_interface handles the
\* click (lines 254-262).
SendMessage ==
    \E location \in Locations, user_input \in SessionTexts,
       uploaded_image \in Uploads, routeOutcome \in SessionOutcomes,
       genOutcome \in SessionOutcomes, pick \in 1..Len(responses) :
        /\ Len(messages) + 2 <= MaxMessages
        /\ user_location' = location
        /\ IF Strip(user_input) # <<>> \/ uploaded_image.py # "None"
           THEN LET p == process_user_input(messages, current_agent,
                             conversation_context, location, user_input,
                             uploaded_image, routeOutcome, genOutcome, pick)
                IN  /\ messages' = p.messages
                    /\ current_agent' = p.current_agent
                    /\ last_run' = Run("send", p.status, TRUE, p.route,
                                        p.generator, p.gen, p.context)
           ELSE /\ UNCHANGED <<messages, current_agent>>
                /\ last_run' = Run("send", "warning", FALSE, NoResult,
                                    "none", NoResult, PyNone)
        /\ UNCHANGED <<conversation_context, call>>

\* A script run whose event is a click on "Clear Conversation"
\* (render_sidebar, lines 103-115).
ClearConversation ==
    \E location \in Locations :
        /\ user_location' = location
        /\ LET c == clear_conversation(messages)
           IN  /\ messages' = c.messages
               /\ current_agent' = c.current_agent
               /\ conversation_context' = c.conversation_context
        /\ last_run' = Run("clear", "rerun", FALSE, NoResult, "none", NoResult,
                        PyNone)
        /\ UNCHANGED call

\* A script run with no button clicked (page load, edited location):
\* only the location sync of render_sidebar changes the session.
Render ==
    \E location \in Locations :
        /\ user_location' = location
        /\ last_run' = Run("render", "rendered", FALSE, NoResult, "none",
                         NoResult, PyNone)
        /\ UNCHANGED <<messages, current_agent, conversation_context, call>>

SessionInit ==
    /\ messages = <<Welcome>>
    /\ current_agent = "router"
    /\ conversation_context = PyDict(<<>>)
    /\ user_location = PyNone
    /\ last_run = [event |-> "init", status |-> "rendered", submitted |-> FALSE,
                   route |-> NoResult, generator |-> "none",
                   gen |-> NoResult, context |-> PyNone,
                   prior_len |-> 0, prior_agent |-> "router"]

Init == SessionInit /\ call = NoCall

Next == SendMessage \/ ClearConversation \/ Render

Spec == Init /\ [][Next]_vars

\* Optional[str] location of TenancyFAQAgent.process_request
OptionalLocations == { PyNone } \cup Locations

CallTenancyProcessRequest ==
    \E location \in OptionalLocations :
        /\ call.fn = "none"
        /\ call' = [call EXCEPT
                      !.fn = "Tenancy_process_request",
                      !.extra = location,
                      !.result = Tenancy_process_request(call.text, location,
                                     call.context, call.outcome)]
        /\ UNCHANGED <<messages, current_agent, conversation_context,
                       user_location, last_run>>

CallClarificationResponse ==
    \E pick \in 1..Len(responses) :
        /\ call.fn = "none"
        /\ call' = [call EXCEPT
                      !.fn = "generate_clarification_response",
                      !.extra = [py |-> "int", items |-> <<pick>>],
                      !.result = generate_clarification_response(call.text,
                                     call.context, pick)]
        /\ UNCHANGED <<messages, current_agent, conversation_context,
                       user_location, last_run>>

-----------------------------------------------------------------------------
(* agent_router.py, analyze_conversation_flow and                          *)
(* _determine_conversation_type (lines 95-121).  The functions of lines    *)
(* 63-141 are applied as they are written; a `self.f(...)` among them is a *)
(* call of the sibling def.                                                *)

\* A dict is the sequence of its items in insertion order.
DictHas(d, k) == \E i \in 1..Len(d) : d[i].k = k

\* d.get(k, default) and d[k]
DictGet(d, k, default) ==
    IF DictHas(d, k)
    THEN d[CHOOSE i \in 1..Len(d) : d[i].k = k].v
    ELSE default

\* d[k] = v: an existing key keeps its place, a new key goes last
DictSet(d, k, v) ==
    IF DictHas(d, k)
    THEN [i \in 1..Len(d) |-> IF d[i].k = k THEN [k |-> k, v |-> v] ELSE d[i]]
    ELSE Append(d, [k |-> k, v |-> v])

\* max(d, key=d.get) from position i on, `best` being the index held so far:
\* a later key replaces it only when strictly greater
RECURSIVE MaxKeyFrom(_, _, _)
MaxKeyFrom(d, i, best) ==
    IF i > Len(d) THEN d[best].k
    ELSE MaxKeyFrom(d, i + 1, IF d[i].v > d[best].v THEN i ELSE best)

\* max keeping the last of the maximal keys
MaxKey_last(d) ==
    LET top == CHOOSE i \in 1..Len(d) : \A j \in 1..Len(d) : d[j].v <= d[i].v
    IN  d[CHOOSE i \in 1..Len(d) :
              /\ d[i].v = d[top].v
              /\ \A j \in (i + 1)..Len(d) : d[j].v < d[top].v].k

MaxKey(d) == MaxKeyFrom(d, 2, 1)

\* the comparison made between agent1 and router
_determine_conversation_type_router(agent_usage) ==
    IF DictGet(agent_usage, "agent1", 0) > DictGet(agent_usage, "router", 0)
    THEN "issue_focused"
    ELSE IF DictGet(agent_usage, "router", 0) > DictGet(agent_usage, "agent1", 0)
    THEN "tenancy_focused"
    ELSE "mixed"

_determine_conversation_type(agent_usage) ==
    IF DictGet(agent_usage, "agent1", 0) > DictGet(agent_usage, "agent2", 0)
    THEN "issue_focused"
    ELSE IF DictGet(agent_usage, "agent2", 0) > DictGet(agent_usage, "agent1", 0)
    THEN "tenancy_focused"
    ELSE "mixed"

\* the loop of lines 101-103 without the `and msg.get('agent')` test
RECURSIVE CountUsage_any_bot(_, _)
CountUsage_any_bot(agent_usage, msgs) ==
    IF msgs = <<>> THEN agent_usage
    ELSE LET msg == Head(msgs)
         IN  CountUsage_any_bot(
                 IF msg.type = "bot"
                 THEN DictSet(agent_usage, msg.agent,
                              DictGet(agent_usage, msg.agent, 0) + 1)
                 ELSE agent_usage,
                 Tail(msgs))

\* the loop of lines 101-103; a missing or None agent is "None"
RECURSIVE CountUsage(_, _)
CountUsage(agent_usage, msgs) ==
    IF msgs = <<>> THEN agent_usage
    ELSE LET msg == Head(msgs)
         IN  CountUsage(
                 IF msg.type = "bot" /\ msg.agent # "None"
                 THEN DictSet(agent_usage, msg.agent,
                              DictGet(agent_usage, msg.agent, 0) + 1)
                 ELSE agent_usage,
                 Tail(msgs))

InitialUsage ==
    << [k |-> "agent1", v |-> 0], [k |-> "agent2", v |-> 0],
       [k |-> "router", v |-> 0] >>

\* analyze_conversation_flow without the `if messages else` of lines 108-109
analyze_conversation_flow_unguarded(msgs) ==
    LET agent_usage == CountUsage(InitialUsage, msgs)
    IN  Ret([agent_usage |-> agent_usage,
             total_messages |-> Len(msgs),
             dominant_agent |-> MaxKey(agent_usage),
             conversation_type |-> _determine_conversation_type(agent_usage)],
            <<>>)

analyze_conversation_flow(msgs) ==
    LET agent_usage == CountUsage(InitialUsage, msgs)
    IN  Ret([agent_usage |-> agent_usage,
             total_messages |-> Len(msgs),
             dominant_agent |->
                 IF msgs # <<>> THEN MaxKey(agent_usage) ELSE "None",
             conversation_type |->
                 IF msgs # <<>> THEN _determine_conversation_type(agent_usage)
                 ELSE "empty"],
            <<>>)

\* the turns of an input log: user turns, assistant turns of each handler,
\* and assistant turns that carry no handler
LogEntries ==
    { [type |-> "user", agent |-> "None"] } \cup
    { [type |-> "bot", agent |-> a] : a \in {"agent1", "agent2", "router", "None"} }

Logs == SeqsUpTo(LogEntries, MaxLog)

CallAnalyzeConversationFlow ==
    \E msgs \in Logs :
        /\ call.fn = "none"
        /\ call' = [fn |-> "analyze_conversation_flow", messages |-> msgs,
                    result |-> analyze_conversation_flow(msgs)]
        /\ UNCHANGED <<messages, current_agent, conversation_context,
                       user_location, last_run>>

-----------------------------------------------------------------------------
(* issue_detection_agent.py, get_follow_up_questions (lines 100-157).      *)
(* A question is an opaque string.                                         *)

questions_db ==
    [water_damage |->
        << "Is the water damage still actively spreading?",
           "Can you locate the source of the water?",
           "Is there a musty odor in the area?",
           "How long has this damage been present?" >>,
     structural_damage |->
        << "Are the cracks getting larger over time?",
           "Do doors or windows stick in this area?",
           "Is the crack wider than a coin?",
           "Are there multiple cracks in the same area?" >>,
     mold_growth |->
        << "What color is the growth you're seeing?",
           "Is there a musty smell in the room?",
           "Is the area frequently damp or humid?",
           "How large is the affected area?" >>,
     electrical_issues |->
        << "Are circuit breakers tripping frequently?",
           "Do you smell burning or see sparks?",
           "Are outlets warm to the touch?",
           "Do lights flicker when appliances turn on?" >>,
     plumbing_issues |->
        << "Is water pressure affected throughout the house?",
           "Can you hear water running when all taps are off?",
           "Is the issue getting worse over time?",
           "Are multiple fixtures affected?" >>,
     cosmetic_damage |->
        << "Is the damage affecting the underlying material?",
           "How large is the affected area?",
           "Is the damage spreading or stable?",
           "Do you know what caused the damage?" >>]

\* the default of questions_db.get (lines 144-148)
GenericQuestions ==
    << "Can you describe the issue in more detail?",
       "When did you first notice this problem?",
       "Has the issue changed or worsened recently?" >>

\* the questions appended for severity 'severe' (lines 151-155)
SevereQuestions ==
    << "Do you need emergency professional assistance?",
       "Is the issue affecting other areas of the property?",
       "Are there any safety concerns for occupants?" >>

\* questions_db.get(issue_type, [...])
BaseQuestions(issue_type) ==
    IF issue_type \in DOMAIN questions_db THEN questions_db[issue_type]
    ELSE GenericQuestions

\* q[:n]
SliceTo(q, n) == SubSeq(q, 1, IF Len(q) < n THEN Len(q) ELSE n)

\* the slice taken before the extend
get_follow_up_questions_slice_first(issue_type, severity) ==
    LET base_questions == SliceTo(BaseQuestions(issue_type), 5)
    IN  Ret(IF severity = "severe" THEN base_questions \o SevereQuestions
            ELSE base_questions, <<>>)

\* the severe questions put in front of the base list
get_follow_up_questions_severe_first(issue_type, severity) ==
    LET base_questions == BaseQuestions(issue_type)
        extended == IF severity = "severe"
                    THEN SevereQuestions \o base_questions
                    ELSE base_questions
    IN  Ret(SliceTo(extended, 5), <<>>)

get_follow_up_questions(issue_type, severity) ==
    LET base_questions == BaseQuestions(issue_type)
        extended == IF severity = "severe"
                    THEN base_questions \o SevereQuestions
                    ELSE base_questions
    IN  Ret(SliceTo(extended, 5), <<>>)

IssueTypes == DOMAIN questions_db \cup {"unknown_type"}

Severities == {"minor", "moderate", "severe"}

CallGetFollowUpQuestions ==
    \E issue_type \in IssueTypes, severity \in Severities :
        /\ call.fn = "none"
        /\ call' = [fn |-> "get_follow_up_questions",
                    issue_type |-> issue_type, severity |-> severity,
                    result |-> get_follow_up_questions(issue_type, severity)]
        /\ UNCHANGED <<messages, current_agent, conversation_context,
                       user_location, last_run>>

\* Direct calls of the functions, each on every choice of inputs
InitUnit ==
    /\ SessionInit
    /\ call \in { [fn |-> "none", result |-> NoResult, text |-> c.text,
                   image_data |-> c.image_data, context |-> c.context,
                   outcome |-> c.outcome, extra |-> PyNone] :
                 c \in CallInputs }

NextUnit ==
    \/ CallRouteRequest
    \/ CallFallbackRoute
    \/ CallKeywordScores
    \/ CallIssueProcessRequest
    \/ CallTenancyProcessRequest
    \/ CallClarificationResponse

SpecUnit == InitUnit /\ [][NextUnit]_vars

\* Direct calls of the functions that take none of the inputs above
InitLib == SessionInit /\ call = [fn |-> "none", result |-> NoResult]

NextLib == CallAnalyzeConversationFlow \/ CallGetFollowUpQuestions

SpecLib == InitLib /\ [][NextLib]_vars

-----------------------------------------------------------------------------
(* Properties of AgentRouter.route_request, checked under SpecUnit *)

Handlers == {"agent1", "agent2", "router"}

RouteCalled == call.fn = "route_request"

\* C1: route_request never lets an exception escape: whatever the text, the
\* context, has_image and the outcome of the model call, it returns one of
\* 'agent1', 'agent2', 'router'.
C1_RouteAlwaysReturnsHandler ==
    RouteCalled =>
        /\ call.result.kind = "return"
        /\ call.result.value \in Handlers

\* C2: with has_image true route_request returns 'agent1' whether the model
\* would succeed or fail, and the model is not invoked during the call.
C2_ImageRoutesToIssue ==
    (RouteCalled /\ has_image_of(call)) =>
        /\ call.result.kind = "return"
        /\ call.result.value = "agent1"
        /\ call.result.calls = <<>>

C2_Witness ==
    /\ RouteCalled
    /\ has_image_of(call)
    /\ ~call.outcome.ok
    /\ call.text # <<>>
    /\ Truthy(call.context)
    /\ call.result.kind = "return"

\* the number of keywords of the list that occur in the text when letter
\* case is ignored
PresenceCount(keywords, text) ==
    LET OccursAt(k, i) ==
            \A j \in 1..Len(k) : LowerChar(text[i + j - 1]) = k[j]
        Occurs(k) == \E i \in 1..(Len(text) - Len(k) + 1) : OccursAt(k, i)
    IN  Cardinality({ n \in 1..Len(keywords) : Occurs(keywords[n]) })

\* the decision the keyword fallback is specified to take
FallbackDecision(text) ==
    LET i == PresenceCount(issue_keywords, text)
        t == PresenceCount(tenancy_keywords, text)
    IN  IF i > t THEN "agent1" ELSE IF t > i THEN "agent2" ELSE "router"

\* C3: with has_image false and a failing model call, route_request returns
\* the keyword-fallback decision: 'agent1' if issue_score > tenancy_score,
\* 'agent2' if tenancy_score > issue_score, 'router' otherwise.
C3_FailureGivesFallbackDecision ==
    (RouteCalled /\ ~has_image_of(call) /\ ~call.outcome.ok) =>
        /\ call.result.kind = "return"
        /\ call.result.value = FallbackDecision(call.text)

\* C4: with has_image false and a successful model call, route_request maps
\* the lowercased answer by ordered substring checks: 'issue' -> 'agent1',
\* else 'tenancy' -> 'agent2', else 'router'; an answer with both words
\* gives 'agent1'.
C4_ResponseMappedInOrder ==
    (RouteCalled /\ ~has_image_of(call) /\ call.outcome.ok) =>
        LET r == Lower(call.outcome.text)
            hasIssue == In(<<"i","s","s","u","e">>, r)
            hasTenancy == In(<<"t","e","n","a","n","c","y">>, r)
        IN  /\ call.result.kind = "return"
            /\ hasIssue => call.result.value = "agent1"
            /\ (~hasIssue /\ hasTenancy) => call.result.value = "agent2"
            /\ (~hasIssue /\ ~hasTenancy) => call.result.value = "router"

C10_IssueRespondTotal ==
    call.fn = "Issue_process_request" =>
        LET promptFails ==
                \E i \in 1..Len(call.context.items) :
                    call.context.items[i] = "bytes"
        IN  /\ call.result.kind = "return"
            /\ (call.outcome.ok /\ ~promptFails) =>
                   call.result.value = <<call.outcome.text, 70>>
            /\ (~call.outcome.ok \/ promptFails) =>
                   call.result.value = <<APOLOGY, 0>>

C10_Witness ==
    /\ call.fn = "Issue_process_request"
    /\ call.outcome.ok
    /\ call.context = PyDict(<<"bytes">>)
    /\ call.result.value = <<APOLOGY, 0>>

-----------------------------------------------------------------------------
(* Properties of the session, checked under Spec *)

\* C6: every submitted turn (non-blank text or an image) is answered by
\* exactly one assistant turn appended to the log, whatever the model calls
\* do; the run never ends in an exception that leaves the user turn
\* unanswered.
C6_SubmittedTurnAnswered ==
    (last_run.event = "send" /\ last_run.submitted) =>
        /\ last_run.status = "rerun"
        /\ Len(messages) = last_run.prior_len + 2
        /\ messages[Len(messages) - 1].type = "user"
        /\ messages[Len(messages)].type = "bot"

\* C7: after clear_conversation, from any reachable session state, the log
\* is exactly the welcome turn and current_agent is 'router'.
C7_ClearResets ==
    last_run.event = "clear" =>
        /\ Len(messages) = 1
        /\ messages[1] = Welcome
        /\ messages[1].type = "bot"
        /\ messages[1].agent = "router"
        /\ current_agent = "router"

C7_Witness ==
    /\ last_run.event = "clear"
    /\ last_run.prior_len >= 3
    /\ last_run.prior_agent = "agent1"
    /\ Len(messages) = 1

\* C8: in every reachable log, every assistant turn carries one handler of
\* {'agent1', 'agent2', 'router'} and every user turn has no handler.
C8_HandlerByRole ==
    \A i \in 1..Len(messages) :
        /\ messages[i].type \in {"user", "bot"}
        /\ messages[i].type = "bot" => messages[i].agent \in Handlers
        /\ messages[i].type = "user" => messages[i].agent = "None"

C8_Witness ==
    /\ \E i \in 2..Len(messages) :
           messages[i].type = "bot" /\ messages[i].agent = "agent1"
    /\ messages[Len(messages)].type = "user"

\* C9: the log is append-only: across every step other than a clear the old
\* log is a prefix of the new one, and only the clear shortens the log.
C9_AppendOnly ==
    [][ /\ last_run'.event # "clear" =>
             /\ Len(messages') >= Len(messages)
             /\ SubSeq(messages', 1, Len(messages)) = messages
        /\ Len(messages') < Len(messages) => last_run'.event = "clear" ]_vars

C9_Witness ==
    /\ last_run.event = "send"
    /\ last_run.prior_len >= 3
    /\ Len(messages) > last_run.prior_len

-----------------------------------------------------------------------------
(* Properties of the tenancy generator and the clarifier, under SpecUnit *)

\* C11: TenancyFAQAgent.process_request, for every text, optional location
\* and context (empty or not): a successful model call returns (raw model
\* output, 0.8), a model failure returns (the apology, 0.0), and no
\* exception reaches the caller.
C11_TenancyRespondTotal ==
    call.fn = "Tenancy_process_request" =>
        /\ call.result.kind = "return"
        /\ call.outcome.ok => call.result.value = <<call.outcome.text, 80>>
        /\ ~call.outcome.ok => call.result.value = <<APOLOGY, 0>>

\* C12: generate_clarification_response never invokes the external model
\* and returns, for every text and context, one of the three fixed
\* clarification prompts with confidence 1.0.
C12_ClarifierFixedSet ==
    call.fn = "generate_clarification_response" =>
        /\ call.result.calls = <<>>
        /\ call.result.kind = "return"
        /\ \E i \in 1..Len(responses) : call.result.value[1] = responses[i]
        /\ call.result.value[2] = 100

-----------------------------------------------------------------------------
(* Properties of analyze_conversation_flow, checked under SpecLib *)

AnalyzeCalled == call.fn = "analyze_conversation_flow"

\* the number of assistant turns of the log that carry handler a
HandlerTurns(log, a) ==
    Cardinality({ i \in 1..Len(log) : log[i].type = "bot" /\ log[i].agent = a })

\* the first handler of `order` whose number of turns is the greatest
FirstMaximal(order, log) ==
    LET IsMax(a) == \A b \in Handlers : HandlerTurns(log, b) <= HandlerTurns(log, a)
        first == CHOOSE i \in 1..Len(order) :
                     /\ IsMax(order[i])
                     /\ \A j \in 1..(i - 1) : ~IsMax(order[j])
    IN  order[first]

-----------------------------------------------------------------------------
(* Properties of get_follow_up_questions, checked under SpecLib *)

FollowUpCalled == call.fn = "get_follow_up_questions"

SeqRange(q) == { q[i] : i \in 1..Len(q) }

\* C16: for every issue type and severity the result is the first 5 entries
\* of the base list followed, only for 'severe', by the three escalation
\* questions; it never exceeds 5 entries, an unknown type starts from the 3
\* generic questions, and ('water_damage', 'severe') gives exactly 5: base
\* questions first, then at least one escalation question.
C16_FollowUpFirstFive ==
    FollowUpCalled =>
        LET base == IF call.issue_type \in DOMAIN questions_db
                    THEN questions_db[call.issue_type]
                    ELSE GenericQuestions
            full == IF call.severity = "severe" THEN base \o SevereQuestions
                    ELSE base
            r == call.result.value
        IN  /\ call.result.kind = "return"
            /\ Len(r) <= 5
            /\ Len(r) = 5 \/ Len(r) = Len(full)
            /\ \A i \in 1..Len(r) : r[i] = full[i]
            /\ (call.issue_type = "unknown_type" /\ call.severity # "severe")
                   => r = GenericQuestions
            /\ (call.issue_type = "water_damage" /\ call.severity = "severe")
                   => /\ Len(r) = 5
                      /\ \E n \in 1..4 :
                             /\ SubSeq(r, 1, n) = SubSeq(questions_db.water_damage, 1, n)
                             /\ \A i \in (n + 1)..5 : r[i] = SevereQuestions[i - n]

C16_Witness ==
    /\ FollowUpCalled
    /\ call.issue_type = "water_damage"
    /\ call.severity = "severe"
    /\ Len(call.result.value) = 5
    /\ call.result.value[5] = SevereQuestions[1]

\* C20 as stated: there is an issue type for which the 'severe' result omits
\* at least one question of that type's base list.
C20_SevereDropsBaseQuestion ==
    FollowUpCalled =>
        \E t \in IssueTypes :
            \E q \in SeqRange(BaseQuestions(t)) :
                q \notin SeqRange(get_follow_up_questions(t, "severe").value)

\* C20 amended: truncation to 5 happens after the severity append, and for
\* every issue type the 'severe' result keeps the whole base list, in order,
\* and omits at least one of the three escalation questions.
C20_SevereKeepsBaseQuestions ==
    (FollowUpCalled /\ call.severity = "severe") =>
        LET base == BaseQuestions(call.issue_type)
            r == call.result.value
        IN  /\ Len(r) = 5
            /\ Len(base) <= Len(r)
            /\ SubSeq(r, 1, Len(base)) = base
            /\ \E q \in SeqRange(SevereQuestions) : q \notin SeqRange(r)

C20_Witness ==
    /\ FollowUpCalled
    /\ call.severity = "severe"
    /\ call.issue_type = "unknown_type"
    /\ SubSeq(call.result.value, 1, 3) = GenericQuestions
    /\ call.result.value[5] = SevereQuestions[2]

-----------------------------------------------------------------------------
(* Properties of a turn's handling, checked under Spec *)

\* C17: per submitted turn the user turn is appended, the router decides
\* once, exactly the generator matching the decision runs once (agent1 ->
\* issue agent, agent2 -> tenancy agent, router -> clarification), and one
\* assistant turn with the router's decision as handler and the generator's
\* confidence is appended.
C17_TurnHandledInOrder ==
    (last_run.event = "send" /\ last_run.submitted) =>
        /\ last_run.route.kind = "return"
        /\ last_run.generator =
               (IF last_run.route.value = "agent1" THEN "issue_agent"
                ELSE IF last_run.route.value = "agent2" THEN "tenancy_agent"
                ELSE "clarification")
        /\ last_run.gen.kind = "return"
        /\ Len(messages) = last_run.prior_len + 2
        /\ messages[Len(messages) - 1].type = "user"
        /\ messages[Len(messages)].type = "bot"
        /\ messages[Len(messages)].agent = last_run.route.value
        /\ messages[Len(messages)].confidence = <<last_run.gen.value[2]>>
        /\ current_agent = last_run.route.value

\* C18: the issue agent calls the image-capable model exactly when an image
\* payload accompanies the turn and the text-only model otherwise; every
\* turn routed to agent1 because has_image was true is answered through the
\* image-capable call, a zero-byte upload included.
C18_ImageTurnUsesImageModel ==
    (last_run.event = "send" /\ last_run.generator = "issue_agent") =>
        LET user_message == messages[last_run.prior_len + 1]
        IN  /\ Len(last_run.gen.calls) = 1
            /\ (user_message.image_data.py = "bytes")
                   <=> (last_run.gen.calls[1].api = "image")


-----------------------------------------------------------------------------
(* Properties of the session's context and of its states between runs,     *)
(* checked under Spec                                                      *)

\* An answered exchange (a user turn directly followed by its assistant
\* turn) within the first n turns of the log
ExchangeBefore(n) ==
    \E i \in 2..(n - 1) :
        messages[i].type = "user" /\ messages[i + 1].type = "bot"

\* C21: the context handed to the router and the generators is a view of
\* the log: on every submitted turn that follows at least one earlier
\* user/assistant exchange since the last reset the handed context is not
\* empty, and after clear_conversation the context is the empty one of the
\* reset log.
C21_ContextIsViewOfLog ==
    /\ (last_run.event = "send" /\ last_run.submitted
            /\ ExchangeBefore(last_run.prior_len))
           => Truthy(last_run.context)
    /\ last_run.event = "clear" => conversation_context = PyDict(<<>>)

\* The position of the last assistant turn of a log (the welcome turn at
\* the least)
LastAssistant(msgs) ==
    CHOOSE i \in 1..Len(msgs) :
        /\ msgs[i].type = "bot"
        /\ \A j \in (i + 1)..Len(msgs) : msgs[j].type # "bot"

\* C22: between script runs, after any sequence of sends and clears,
\* current_agent is the handler of the last assistant turn of the log.
C22_CurrentAgentIsLastHandler ==
    /\ \E i \in 1..Len(messages) : messages[i].type = "bot"
    /\ current_agent = messages[LastAssistant(messages)].agent

C22_Witness ==
    /\ last_run.event = "send"
    /\ last_run.status = "rerun"
    /\ last_run.prior_agent = "router"
    /\ current_agent = "agent1"
    /\ messages[Len(messages)].agent = "agent1"

\* C23: between script runs, after any sequence of sends (blank ones
\* included, which change nothing), model failures and clears, the log is
\* not empty, its first turn is the welcome turn and the turns after it
\* alternate user, assistant: the length is odd and every user turn is
\* directly followed by its assistant reply.
C23_LogAlternates ==
    /\ Len(messages) >= 1
    /\ messages[1] = Welcome
    /\ Len(messages) % 2 = 1
    /\ \A i \in 2..Len(messages) :
           messages[i].type = (IF i % 2 = 0 THEN "user" ELSE "bot")
    /\ (last_run.event = "send" /\ ~last_run.submitted) =>
           Len(messages) = last_run.prior_len

=============================================================================
